---- MODULE Spec2Model ----
(***************************************************************************)
(* A model of elasticsearch-writable-stream (index.js): the buffering      *)
(* writer that queues records, flushes them through client.bulk when the   *)
(* queue reaches highWaterMark, when the flush timer fires or when the     *)
(* stream finishes, and dispatches update_by_query records on their own.   *)
(*                                                                         *)
(* A JavaScript object is a TLA+ record whose domain is the set of fields  *)
(* the object has: a missing field is a name that is not in the domain.    *)
(* Every value the fixtures carry is truthy, so "truthy" is "present".     *)
(***************************************************************************)
EXTENDS Integers, Sequences, FiniteSets, TLC

(***************************************************************************)
(* Bounds of the model.                                                    *)
(***************************************************************************)
\* number of records the caller submits in one run
MaxSubmits == 3
\* number of items of a bulk response, where the responses are enumerated
MaxItems == 3
\* number of documents client.updateByQuery reports as updated
MaxUpdated == 2
\* the configured highWaterMark ranges over 1..MaxHighWaterMark
MaxHighWaterMark == 2
\* the same, where the timer is followed over submits below highWaterMark
MaxTimerMark == 3

VARIABLES
    highWaterMark,   \* this.highWaterMark
    flushTimeout,    \* this.flushTimeout is set (TRUE) or null (FALSE)
    queue,           \* this.queue
    flushTimeoutId,  \* TRUE while the timer of this.flushTimeoutId is pending
    timeouts,        \* number of timers set by setTimeout that are pending
    writtenRecords,  \* this.writtenRecords
    bulkPending,     \* client.bulk calls awaiting their response
    ubqPending,      \* client.updateByQuery calls awaiting their response
    writing,         \* what the outstanding _write waits for, "idle" when none
    writeResult,     \* what the last _write passed to its callback
    writeFlush,      \* number of the bulk call the last _write waits/waited for
    state,           \* Open, Closing (final _flush running), Closed
    closeOutcome,    \* what the final _flush passed to its callback
    errorEvents,     \* number of this.emit('error', err) of the timer callback
    nsubmits,        \* number of _write calls so far
    accepted,        \* every record pushed on the queue, in order
    bulkCalls,       \* every client.bulk call, in order: its body, and who flushed
    bulkResults,     \* what each bulk call passed to the callback of its _flush
    bulkResponses,   \* what client.bulk answered to each call
    ubqCalls,        \* the argument of every client.updateByQuery call, in order
    ubqResponses     \* what client.updateByQuery answered to each call

vars == <<highWaterMark, flushTimeout, queue, flushTimeoutId, timeouts,
          writtenRecords,
          bulkPending, ubqPending, writing, writeResult, writeFlush, state,
          closeOutcome, errorEvents, nsubmits, accepted, bulkCalls,
          bulkResults, bulkResponses, ubqCalls, ubqResponses>>

(***************************************************************************)
(* Objects.                                                                *)
(***************************************************************************)
Has(o, f) == f \in DOMAIN o

Unset(o, f) == [k \in DOMAIN o \ {f} |-> o[k]]

\* o[f] = v, the other fields kept
Set(o, f, v) == (f :> v) @@ o

\* callback() / callback(err): what an operation reports
Ok == [status |-> "ok", message |-> ""]
Pending == [status |-> "pending", message |-> ""]
Fail(msg) == [status |-> "error", message |-> msg]

IsError(out) == out.status = "error"

\* no answer yet
NoResponse == [pending |-> TRUE]

(***************************************************************************)
(* The records of the tests' fixtures, with the id n the caller gives.     *)
(***************************************************************************)
recordFixture(n) ==
    [index |-> "indexName", type |-> "recordType", id |-> n,
     body |-> [foo |-> "bar"]]

recordDeleteFixture(n) ==
    [index |-> "indexName", type |-> "recordType", id |-> n,
     action |-> "delete"]

recordParentFixture(n) ==
    [index |-> "indexName", type |-> "recordType", id |-> n,
     parent |-> "parentRecordType", body |-> [foo |-> "bar"]]

recordUpdateFixture(n) ==
    [index |-> "indexName", type |-> "recordType", id |-> n,
     action |-> "update", body |-> [foo |-> "bar"]]

\* a record of which the property type is a getter that throws: it has the
\* index and the body validateOperation asks, and transformRecords reads its type
recordThrowingFixture(n) ==
    [index |-> "indexName", id |-> n, body |-> [foo |-> "bar"],
     getter |-> "type"]

recordUpdateByQueryFixture ==
    [index |-> "indexName", type |-> "recordType",
     action |-> "update_by_query",
     body |-> [script |-> "ctx._source.counter++", query |-> "term"]]

\* what getMissingFieldTest('body.script') leaves of the record
UnsetBody(o, f) == Set(o, "body", Unset(o.body, f))

\* the records a caller submits as its n-th
Records(n) ==
    { recordFixture(n), recordDeleteFixture(n), recordUpdateByQueryFixture,
      Unset(recordFixture(n), "type"),
      Unset(recordFixture(n), "index"),
      Unset(recordFixture(n), "body"),
      Unset(recordDeleteFixture(n), "index"),
      UnsetBody(recordUpdateByQueryFixture, "script"),
      UnsetBody(recordUpdateByQueryFixture, "query"),
      UnsetBody(UnsetBody(recordUpdateByQueryFixture, "script"), "query"),
      Unset(Unset(recordFixture(n), "index"), "body"),
      Unset(recordUpdateByQueryFixture, "body") }

(***************************************************************************)
(* validateOperation: the record with its action defaulted, or the         *)
(* message of the assertion that failed.                                   *)
(***************************************************************************)
DefaultAction(operation) ==
    IF Has(operation, "action") THEN operation
    ELSE Set(operation, "action", "index")

\* a validation that asks a body of every action
BodyRequired_Always(operation) == TRUE

BodyRequired(operation) == operation.action # "delete"

\* a validation that looks at body.query before body.script
validateOperation_QueryFirst(operation) ==
    IF ~Has(operation, "index")
    THEN [error |-> "index is required", operation |-> operation]
    ELSE LET op == DefaultAction(operation) IN
         IF BodyRequired(op) /\ ~Has(op, "body")
         THEN [error |-> "body is required", operation |-> op]
         ELSE IF BodyRequired(op) /\ op.action = "update_by_query"
                 /\ ~Has(op.body, "query")
         THEN [error |-> "body.query is required", operation |-> op]
         ELSE IF BodyRequired(op) /\ op.action = "update_by_query"
                 /\ ~Has(op.body, "script")
         THEN [error |-> "body.script is required", operation |-> op]
         ELSE [error |-> "", operation |-> op]

validateOperation(operation) ==
    IF ~Has(operation, "index")
    THEN [error |-> "index is required", operation |-> operation]
    ELSE LET op == DefaultAction(operation) IN
         IF BodyRequired(op) /\ ~Has(op, "body")
         THEN [error |-> "body is required", operation |-> op]
         ELSE IF BodyRequired(op) /\ op.action = "update_by_query"
                 /\ ~Has(op.body, "script")
         THEN [error |-> "body.script is required", operation |-> op]
         ELSE IF BodyRequired(op) /\ op.action = "update_by_query"
                 /\ ~Has(op.body, "query")
         THEN [error |-> "body.query is required", operation |-> op]
         ELSE [error |-> "", operation |-> op]

(***************************************************************************)
(* transformRecords: the wire batch of a queue.                            *)
(***************************************************************************)
\* a header that has a _type whatever the record has
Header_TypeAlways(record) ==
    LET type == [_type |-> IF Has(record, "type") THEN record.type ELSE ""]
        id == IF Has(record, "id") THEN [_id |-> record.id] ELSE <<>>
        parent == IF Has(record, "parent") THEN [_parent |-> record.parent]
                  ELSE <<>>
    IN  parent @@ [_index |-> record.index] @@ id @@ type

Header(record) ==
    LET type == IF Has(record, "type") THEN [_type |-> record.type]
                ELSE <<>>
        id == IF Has(record, "id") THEN [_id |-> record.id] ELSE <<>>
        parent == IF Has(record, "parent") THEN [_parent |-> record.parent]
                  ELSE <<>>
    IN  parent @@ [_index |-> record.index] @@ id @@ type

Operation(record) == record.action :> Header(record)

\* a transform that sends the headers only
HasBodyEntry_Never(record) == FALSE

HasBodyEntry(record) == record.action # "delete"

RECURSIVE transformRecords(_)
transformRecords(records) ==
    IF records = <<>> THEN <<>>
    ELSE LET record == records[Len(records)]
             bulkOperations == transformRecords(SubSeq(records, 1, Len(records) - 1))
         IN  IF HasBodyEntry(record)
             THEN bulkOperations \o <<Operation(record), record.body>>
             ELSE Append(bulkOperations, Operation(record))

(***************************************************************************)
(* bulkWrite's reading of the response of client.bulk.                     *)
(***************************************************************************)
\* an item's error: a string, or an object
ErrorString(s) == [string |-> s]
ErrorObject(t, r) == [type |-> t, reason |-> r]

successResponseFixture ==
    [err |-> FALSE, errors |-> FALSE,
     items |-> << [index |-> [status |-> 200]] >>]

errorResponseFixture ==
    [err |-> FALSE, errors |-> TRUE,
     items |-> << [index |-> [status |-> 500,
                              error |-> ErrorString("InternalServerError")]],
                  [index |-> [status |-> 500,
                              error |-> ErrorString("InternalServerError")]],
                  [index |-> [status |-> 403,
                              error |-> ErrorString("Forbidden")]],
                  [index |-> [status |-> 200]] >>]

transportErrorFixture == [err |-> TRUE, message |-> "Fail"]

\* what client.bulk may answer
BulkResponses ==
    { successResponseFixture, errorResponseFixture, transportErrorFixture }

\* _.map(item, 'error')[0], and then type[reason] for an error object
ItemError(item) ==
    LET first == item[CHOOSE k \in DOMAIN item : TRUE] IN
    IF ~Has(first, "error") THEN <<>>
    ELSE IF Has(first.error, "string") THEN <<first.error.string>>
    ELSE IF Has(first.error, "type")
         THEN <<first.error.type \o "[" \o first.error.reason \o "]">>
    ELSE <<>>

InSeq(x, s) == \E i \in 1..Len(s) : s[i] = x

\* a list of errors that keeps the repeated ones
RECURSIVE ItemErrors_NoUniq(_)
ItemErrors_NoUniq(items) ==
    IF items = <<>> THEN <<>>
    ELSE ItemErrors_NoUniq(SubSeq(items, 1, Len(items) - 1))
             \o ItemError(items[Len(items)])

\* .map(...).filter(_.isString).uniq()
RECURSIVE ItemErrors(_)
ItemErrors(items) ==
    IF items = <<>> THEN <<>>
    ELSE LET before == ItemErrors(SubSeq(items, 1, Len(items) - 1))
             error == ItemError(items[Len(items)])
         IN  IF error = <<>> \/ InSeq(error[1], before) THEN before
             ELSE before \o error

\* String(errors), the message of new Error(errors)
RECURSIVE Join(_)
Join(errors) ==
    IF errors = <<>> THEN ""
    ELSE IF Len(errors) = 1 THEN errors[1]
    ELSE Join(SubSeq(errors, 1, Len(errors) - 1)) \o "," \o errors[Len(errors)]

\* a bulkWrite that never looks at the items
ErrorsFlagged_Never(data) == FALSE

\* a bulkWrite that takes every response for a failure
ErrorsFlagged_Always(data) == TRUE

ErrorsFlagged(data) == data.errors = TRUE

\* an error that does not say what was sent
WithRecords_Dropped(error, records) == error

\* err.records = records
WithRecords(error, records) == [records |-> records] @@ error

bulkWrite(records, response) ==
    IF response.err THEN WithRecords(Fail(response.message), records)
    ELSE IF ErrorsFlagged(response)
    THEN WithRecords(Fail(Join(ItemErrors(response.items))), records)
    ELSE Ok

(***************************************************************************)
(* partialUpdate's reading of the response of client.updateByQuery.        *)
(***************************************************************************)
successUpdateByQueryResponseFixture ==
    [err |-> FALSE, updated |-> 2, failures |-> <<>>]

failedUpdateByQueryResponseFixture ==
    [err |-> FALSE, updated |-> 1, failures |-> <<"failure">>]

UpdateByQueryResponses ==
    { successUpdateByQueryResponseFixture, failedUpdateByQueryResponseFixture,
      transportErrorFixture }

\* an error that does not say which operation failed
WithOperation_Dropped(error, operation) == error

\* err.operation = operation, error.operation = operation
WithOperation(error, operation) == [operation |-> operation] @@ error

partialUpdateResult(operation, response) ==
    IF response.err THEN WithOperation(Fail(response.message), operation)
    ELSE IF Len(response.failures) # 0
    THEN WithOperation(Fail("One or more failures occurred during update_by_query."),
                       operation)
    ELSE Ok

(***************************************************************************)
(* The initial state: the constructor, with the options of the caller.     *)
(***************************************************************************)
\* the fields and the histories of a new writer
Constructed ==
    /\ flushTimeout \in BOOLEAN
    /\ queue = <<>>
    /\ flushTimeoutId = FALSE
    /\ timeouts = 0
    /\ writtenRecords = 0
    /\ bulkPending = {}
    /\ ubqPending = <<>>
    /\ writing = "idle"
    /\ writeResult = Pending
    /\ writeFlush = 0
    /\ state = "Open"
    /\ closeOutcome = Pending
    /\ errorEvents = 0
    /\ nsubmits = 0
    /\ accepted = <<>>
    /\ bulkCalls = <<>>
    /\ bulkResults = <<>>
    /\ bulkResponses = <<>>
    /\ ubqCalls = <<>>
    /\ ubqResponses = <<>>

Init ==
    /\ highWaterMark \in 1..MaxHighWaterMark
    /\ Constructed

(***************************************************************************)
(* The callbacks _flush is given.  "write" is the callback of _write, that *)
(* the stream gave; "timer" the function of the timer, which emits the     *)
(* error; "close" that of the stream's end, which emits finish or error.   *)
(***************************************************************************)
\* a timer callback that drops the error
Callback_TimerSilent(caller, out) ==
    /\ writing' = IF caller = "write" THEN "idle" ELSE writing
    /\ writeResult' = IF caller = "write" THEN out ELSE writeResult
    /\ errorEvents' = errorEvents
    /\ state' = IF caller = "close" THEN "Closed" ELSE state
    /\ closeOutcome' = IF caller = "close" THEN out ELSE closeOutcome

\* an end of the stream that drops the error of the final flush
Callback_CloseSucceeds(caller, out) ==
    /\ writing' = IF caller = "write" THEN "idle" ELSE writing
    /\ writeResult' = IF caller = "write" THEN out ELSE writeResult
    /\ errorEvents' = IF caller = "timer" /\ IsError(out)
                      THEN errorEvents + 1 ELSE errorEvents
    /\ state' = IF caller = "close" THEN "Closed" ELSE state
    /\ closeOutcome' = IF caller = "close" THEN Ok ELSE closeOutcome

Callback(caller, out) ==
    /\ writing' = IF caller = "write" THEN "idle" ELSE writing
    /\ writeResult' = IF caller = "write" THEN out ELSE writeResult
    /\ errorEvents' = IF caller = "timer" /\ IsError(out)
                      THEN errorEvents + 1 ELSE errorEvents
    /\ state' = IF caller = "close" THEN "Closed" ELSE state
    /\ closeOutcome' = IF caller = "close" THEN out ELSE closeOutcome

\* a _write that calls back as soon as it has started the flush
Waiting_CallbackAtOnce(caller) ==
    /\ writing' = IF caller = "write" THEN "idle" ELSE writing
    /\ writeResult' = IF caller = "write" THEN Ok ELSE writeResult
    /\ state' = IF caller = "close" THEN "Closing" ELSE state
    /\ UNCHANGED <<errorEvents, closeOutcome>>

\* the caller is left waiting for its callback
Waiting(caller) ==
    /\ writing' = IF caller = "write" THEN "flush" ELSE writing
    /\ writeResult' = IF caller = "write" THEN Pending ELSE writeResult
    /\ state' = IF caller = "close" THEN "Closing" ELSE state
    /\ UNCHANGED <<errorEvents, closeOutcome>>

(***************************************************************************)
(* _flush(callback), on the queue q.                                       *)
(***************************************************************************)
\* a flush that sends the queue whatever it holds
QueueIsEmpty_Never(q) == FALSE

\* a flush that sends full batches only
QueueIsEmpty_BelowMark(q) == Len(q) < highWaterMark

QueueIsEmpty(q) == Len(q) = 0

\* a flush that leaves the records it sent in the queue
QueueAfterFlush_Kept(q) == q

\* this.queue = [] after the records were transformed
QueueAfterFlush(q) == <<>>

\* a flush that leaves the timer running
ClearedTimeout_Kept(id) == id

\* clearTimeout(this.flushTimeoutId)
ClearedTimeout(id) == FALSE

\* a count of the wire entries
RecordsCount_WireEntries(q) == Len(transformRecords(q))

\* var recordsCount = this.queue.length
RecordsCount(q) == Len(q)

\* the timers pending when _flush starts: the one that runs it has fired
PendingTimeouts(caller) == IF caller = "timer" THEN timeouts - 1 ELSE timeouts

\* whether this.flushTimeoutId is pending when _flush starts: the timer that
\* has fired is the oldest
PendingTimeoutId(caller) ==
    IF caller = "timer" THEN flushTimeoutId /\ timeouts > 1 ELSE flushTimeoutId

\* transformRecords throws: it reads a property of a record that throws
TransformThrows(q) == \E i \in 1..Len(q) : Has(q[i], "getter")

TransformError(q) ==
    LET i == CHOOSE i \in 1..Len(q) :
                 Has(q[i], "getter") /\ \A j \in 1..(i - 1) : ~Has(q[j], "getter")
    IN  Fail(q[i].getter \o " getter")

\* a flush that drops the records it could not transform
QueueAfterThrow_Lost(q) == <<>>

\* catch (error) { return callback(error); } comes before this.queue = []
QueueAfterThrow(q) == q

Flush(q, caller) ==
    /\ flushTimeoutId' = ClearedTimeout(PendingTimeoutId(caller))
    /\ timeouts' = IF PendingTimeoutId(caller) /\ ~flushTimeoutId'
                   THEN PendingTimeouts(caller) - 1 ELSE PendingTimeouts(caller)
    /\ IF QueueIsEmpty(q)
       THEN /\ queue' = q
            /\ Callback(caller, Ok)
            /\ writeFlush' = IF caller = "write" THEN 0 ELSE writeFlush
            /\ UNCHANGED <<bulkPending, bulkCalls, bulkResults, bulkResponses>>
       ELSE IF TransformThrows(q)
       THEN /\ queue' = QueueAfterThrow(q)
            /\ Callback(caller, TransformError(q))
            /\ writeFlush' = IF caller = "write" THEN 0 ELSE writeFlush
            /\ UNCHANGED <<bulkPending, bulkCalls, bulkResults, bulkResponses>>
       ELSE LET records == transformRecords(q)
                call == [n |-> Len(bulkCalls) + 1, records |-> records,
                         recordsCount |-> RecordsCount(q), caller |-> caller]
            IN  /\ queue' = QueueAfterFlush(q)
                /\ bulkPending' = bulkPending \cup {call}
                /\ bulkCalls' = Append(bulkCalls, [body |-> records, caller |-> caller,
                                                   recordsCount |-> call.recordsCount])
                /\ bulkResults' = Append(bulkResults, Pending)
                /\ bulkResponses' = Append(bulkResponses, NoResponse)
                /\ writeFlush' = IF caller = "write" THEN call.n ELSE writeFlush
                /\ Waiting(caller)

\* the callback of client.bulk in bulkWrite, and that of bulkWrite in _flush
BulkResponse(call, response) ==
    LET out == bulkWrite(call.records, response) IN
    /\ call \in bulkPending
    /\ bulkPending' = bulkPending \ {call}
    /\ bulkResults' = [bulkResults EXCEPT ![call.n] = out]
    /\ bulkResponses' = [bulkResponses EXCEPT ![call.n] = response]
    /\ writtenRecords' = IF IsError(out) THEN writtenRecords
                         ELSE writtenRecords + call.recordsCount
    /\ Callback(call.caller, out)
    /\ UNCHANGED <<highWaterMark, flushTimeout, queue, flushTimeoutId, timeouts,
                   ubqPending, writeFlush, nsubmits, accepted,
                   bulkCalls, ubqCalls, ubqResponses>>

(***************************************************************************)
(* _write(record, enc, callback).  The stream calls it for one record at a *)
(* time, the next one after the callback of the one before, and not after  *)
(* the stream has ended.                                                   *)
(***************************************************************************)
\* a threshold that lets the queue grow past highWaterMark
ReachedHighWaterMark_Exceeded(q) == Len(q) > highWaterMark

ReachedHighWaterMark(q) == Len(q) >= highWaterMark

\* a _write that sets a timer and leaves the one before running
RearmedTimeouts_NotCleared(n, id) == n + 1

\* clearTimeout(this.flushTimeoutId), then setTimeout
RearmedTimeouts(n, id) == (IF id THEN n - 1 ELSE n) + 1

\* a _write that sets the timer whether flushTimeout is set or not
ArmedTimeout_Always == TRUE

\* a _write that never sets the timer
ArmedTimeout_Never == FALSE

\* else if (this.flushTimeout): the timer is set, after the one before was cleared
ArmedTimeout == flushTimeout

\* a partialUpdate that sends the record as it is
UpdateByQueryOperation_WithAction(operation) == operation

\* partialUpdate: the operation sent is the record without its action
UpdateByQueryOperation(operation) == Unset(operation, "action")

Write(record) ==
    LET valid == validateOperation(record)
        op == valid.operation
    IN
    /\ state = "Open"
    /\ writing = "idle"
    /\ nsubmits < MaxSubmits
    /\ nsubmits' = nsubmits + 1
    /\ UNCHANGED <<highWaterMark, flushTimeout, writtenRecords>>
    /\ IF valid.error # ""
       THEN /\ Callback("write", Fail(valid.error))
            /\ writeFlush' = 0
            /\ UNCHANGED <<queue, flushTimeoutId, timeouts, bulkPending, ubqPending,
                           accepted, bulkCalls, bulkResults, bulkResponses,
                           ubqCalls, ubqResponses>>
       ELSE IF op.action = "update_by_query"
       THEN /\ ubqPending' = Append(ubqPending, [op |-> UpdateByQueryOperation(op),
                                                  operation |-> op])
            /\ ubqCalls' = Append(ubqCalls, UpdateByQueryOperation(op))
            /\ ubqResponses' = Append(ubqResponses, NoResponse)
            /\ writing' = "ubq"
            /\ writeResult' = Pending
            /\ writeFlush' = 0
            /\ UNCHANGED <<queue, flushTimeoutId, timeouts, bulkPending, accepted,
                           bulkCalls, bulkResults, bulkResponses, state,
                           closeOutcome, errorEvents>>
       ELSE /\ accepted' = Append(accepted, op)
            /\ UNCHANGED <<ubqPending, ubqCalls, ubqResponses>>
            /\ IF ReachedHighWaterMark(Append(queue, op))
               THEN Flush(Append(queue, op), "write")
               ELSE /\ queue' = Append(queue, op)
                    /\ flushTimeoutId' = ArmedTimeout
                    /\ timeouts' = IF ArmedTimeout
                                   THEN RearmedTimeouts(timeouts, flushTimeoutId)
                                   ELSE timeouts
                    /\ Callback("write", Ok)
                    /\ writeFlush' = 0
                    /\ UNCHANGED <<bulkPending, bulkCalls, bulkResults,
                                   bulkResponses>>

Submit == \E record \in Records(nsubmits + 1) : Write(record)

\* the callback of client.updateByQuery in partialUpdate
UpdateByQueryResponse(response) ==
    LET out == partialUpdateResult(Head(ubqPending).operation, response) IN
    /\ ubqPending # <<>>
    /\ ubqPending' = Tail(ubqPending)
    /\ ubqResponses' = [ubqResponses EXCEPT ![Len(ubqCalls)] = response]
    /\ writtenRecords' = IF IsError(out) THEN writtenRecords
                         ELSE writtenRecords + response.updated
    /\ Callback("write", out)
    /\ UNCHANGED <<highWaterMark, flushTimeout, queue, flushTimeoutId, timeouts,
                   bulkPending, writeFlush, nsubmits, accepted,
                   bulkCalls, bulkResults, bulkResponses, ubqCalls>>

\* the function _write gave setTimeout runs
TimerFires ==
    /\ timeouts > 0
    /\ Flush(queue, "timer")
    /\ UNCHANGED <<highWaterMark, flushTimeout, writtenRecords, ubqPending,
                   nsubmits, accepted, ubqCalls, ubqResponses>>

\* the stream has ended and every _write has called back: the final _flush
Close ==
    /\ state = "Open"
    /\ writing = "idle"
    /\ Flush(queue, "close")
    /\ UNCHANGED <<highWaterMark, flushTimeout, writtenRecords, ubqPending,
                   nsubmits, accepted, ubqCalls, ubqResponses>>

BulkResponds ==
    \E call \in bulkPending : \E response \in BulkResponses :
        BulkResponse(call, response)

UpdateByQueryResponds ==
    \E response \in UpdateByQueryResponses : UpdateByQueryResponse(response)

Next ==
    \/ Submit
    \/ TimerFires
    \/ Close
    \/ BulkResponds
    \/ UpdateByQueryResponds

Spec == Init /\ [][Next]_vars

(***************************************************************************)
(* The writer given one record, which the threshold, the timer or the end  *)
(* of the stream flushes, and a backend that answers the bulk call with    *)
(* any response of up to MaxItems items.                                   *)
(***************************************************************************)
errorObjectResponseFixture ==
    [err |-> FALSE, errors |-> TRUE,
     items |-> << [index |-> [status |-> 500,
                              error |-> ErrorObject("InternalServerError",
                                                    "Error reason")]],
                  [index |-> [status |-> 403,
                              error |-> ErrorObject("Forbidden",
                                                    "Forbidden reason")]] >>]

\* the items a response is made of
Items ==
    { successResponseFixture.items[1],
      errorResponseFixture.items[1],
      errorResponseFixture.items[3],
      errorObjectResponseFixture.items[1],
      errorObjectResponseFixture.items[2],
      [index |-> [status |-> 400, error |-> [caused_by |-> "unknown"]]] }

ItemLists == UNION { [1..n -> Items] : n \in 0..MaxItems }

AnyBulkResponses ==
    { transportErrorFixture }
        \cup { [err |-> FALSE, errors |-> flag, items |-> items] :
                   flag \in BOOLEAN, items \in ItemLists }

SubmitOne ==
    /\ nsubmits = 0
    /\ \E record \in {recordFixture(1), recordDeleteFixture(1)} : Write(record)

BulkRespondsAny ==
    \E call \in bulkPending : \E response \in AnyBulkResponses :
        BulkResponse(call, response)

NextBulk ==
    \/ SubmitOne
    \/ TimerFires
    \/ Close
    \/ BulkRespondsAny

SpecBulk == Init /\ [][NextBulk]_vars

(***************************************************************************)
(* The writer given the records of every action the bulk call takes, and   *)
(* a backend that answers every bulk call with success.                    *)
(***************************************************************************)
WireRecords(n) ==
    { recordFixture(n), recordDeleteFixture(n), recordParentFixture(n),
      recordUpdateFixture(n), Set(recordFixture(n), "action", "create"),
      Unset(recordFixture(n), "type") }

SubmitWire == \E record \in WireRecords(nsubmits + 1) : Write(record)

BulkRespondsSuccess ==
    \E call \in bulkPending : BulkResponse(call, successResponseFixture)

NextWire ==
    \/ SubmitWire
    \/ TimerFires
    \/ Close
    \/ BulkRespondsSuccess

SpecWire == Init /\ [][NextWire]_vars

(***************************************************************************)
(* The writer given update_by_query records, and a backend that answers    *)
(* client.updateByQuery with any count of updated documents up to          *)
(* MaxUpdated and with none, one or two failures.                          *)
(***************************************************************************)
AnyUpdateByQueryResponses ==
    { transportErrorFixture }
        \cup { [err |-> FALSE, updated |-> updated, failures |-> failures] :
                   updated \in 0..MaxUpdated,
                   failures \in {<<>>, <<"failure">>, <<"failure", "failure">>} }

SubmitUpdateByQuery ==
    Write(Set(recordUpdateByQueryFixture, "id", nsubmits + 1))

UpdateByQueryRespondsAny ==
    \E response \in AnyUpdateByQueryResponses : UpdateByQueryResponse(response)

NextUpdateByQuery ==
    \/ SubmitUpdateByQuery
    \/ Close
    \/ UpdateByQueryRespondsAny

SpecUpdateByQuery == Init /\ [][NextUpdateByQuery]_vars

(***************************************************************************)
(* The writer with a highWaterMark of up to MaxTimerMark, given records to *)
(* index: the timer is set again by each submit below highWaterMark.       *)
(***************************************************************************)
InitTimer ==
    /\ highWaterMark \in 1..MaxTimerMark
    /\ Constructed

SubmitRecord == Write(recordFixture(nsubmits + 1))

NextTimer ==
    \/ SubmitRecord
    \/ TimerFires
    \/ Close
    \/ BulkResponds

SpecTimer == InitTimer /\ [][NextTimer]_vars

\* the same, with a timer that fires when it is left pending
SpecTimerFires == SpecTimer /\ WF_vars(TimerFires)

(***************************************************************************)
(* The writer given records to index of which some make transformRecords   *)
(* throw.                                                                  *)
(***************************************************************************)
SubmitThrowing ==
    \E record \in {recordFixture(nsubmits + 1), recordThrowingFixture(nsubmits + 1)} :
        Write(record)

NextTransform ==
    \/ SubmitThrowing
    \/ TimerFires
    \/ Close
    \/ BulkRespondsSuccess

SpecTransform == Init /\ [][NextTransform]_vars

(***************************************************************************)
(* bulk-update.js: ElasticsearchPartialUpdateWritable, the writer that     *)
(* sends each record it is given to client.updateByQuery.  Its fields are  *)
(* highWaterMark and writtenRecords; it has no queue and no timer.         *)
(***************************************************************************)
\* a transformUpdate that sends the record as it is
transformUpdate_WholeRecord(record) ==
    IF ~Has(record, "index")
    THEN [error |-> "index is required", update |-> <<>>]
    ELSE IF ~Has(record, "type")
    THEN [error |-> "type is required", update |-> <<>>]
    ELSE IF ~Has(record, "body")
    THEN [error |-> "body is required", update |-> <<>>]
    ELSE IF ~Has(record.body, "script")
    THEN [error |-> "body.script is required", update |-> <<>>]
    ELSE IF ~Has(record.body, "query")
    THEN [error |-> "body.query is required", update |-> <<>>]
    ELSE [error |-> "", update |-> record]

\* transformUpdate: the update sent, or the message of the assertion that failed
transformUpdate(record) ==
    IF ~Has(record, "index")
    THEN [error |-> "index is required", update |-> <<>>]
    ELSE IF ~Has(record, "type")
    THEN [error |-> "type is required", update |-> <<>>]
    ELSE IF ~Has(record, "body")
    THEN [error |-> "body is required", update |-> <<>>]
    ELSE IF ~Has(record.body, "script")
    THEN [error |-> "body.script is required", update |-> <<>>]
    ELSE IF ~Has(record.body, "query")
    THEN [error |-> "body.query is required", update |-> <<>>]
    ELSE [error |-> "",
          update |-> [index |-> record.index, type |-> record.type,
                      body |-> [script |-> record.body.script,
                                query |-> record.body.query]]]

\* err.update = update, error.update = update
WithUpdate(error, update) == [update |-> update] @@ error

\* the callback of client.updateByQuery in partialUpdate of bulk-update.js
bulkUpdateResult(update, response) ==
    IF response.err THEN WithUpdate(Fail(response.message), update)
    ELSE IF Len(response.failures) # 0
    THEN WithUpdate(Fail("One or more failures occurred during bulk update."), update)
    ELSE Ok

\* the records given to the writer: an update with more fields than are
\* sent, and the same without some of the fields that are asked
UpdateRecord(n) ==
    [index |-> "indexName", type |-> "recordType", id |-> n,
     action |-> "update_by_query",
     body |-> [script |-> "ctx._source.counter++", query |-> "term",
               lang |-> "painless"]]

WithoutField(record, f) ==
    IF f \in {"script", "query"}
    THEN IF Has(record, "body") THEN UnsetBody(record, f) ELSE record
    ELSE Unset(record, f)

RECURSIVE WithoutFields(_, _)
WithoutFields(record, fields) ==
    IF fields = {} THEN record
    ELSE LET f == CHOOSE f \in fields : TRUE
         IN  WithoutFields(WithoutField(record, f), fields \ {f})

UpdateRecords(n) ==
    { WithoutFields(UpdateRecord(n), fields) :
          fields \in SUBSET {"index", "type", "body", "script", "query"} }

\* _write of bulk-update.js: partialUpdate(update, ...) up to client.updateByQuery
WriteUpdate(record) ==
    LET transformed == transformUpdate(record) IN
    /\ state = "Open"
    /\ writing = "idle"
    /\ nsubmits < MaxSubmits
    /\ nsubmits' = nsubmits + 1
    /\ writeFlush' = 0
    /\ IF transformed.error # ""
       THEN /\ Callback("write", Fail(transformed.error))
            /\ UNCHANGED <<ubqPending, ubqCalls, ubqResponses>>
       ELSE /\ ubqPending' = Append(ubqPending, [op |-> transformed.update,
                                                  operation |-> record])
            /\ ubqCalls' = Append(ubqCalls, transformed.update)
            /\ ubqResponses' = Append(ubqResponses, NoResponse)
            /\ writing' = "ubq"
            /\ writeResult' = Pending
            /\ UNCHANGED <<state, closeOutcome, errorEvents>>
    /\ UNCHANGED <<highWaterMark, flushTimeout, queue, flushTimeoutId, timeouts,
                   writtenRecords, bulkPending, accepted, bulkCalls,
                   bulkResults, bulkResponses>>

\* the callback of client.updateByQuery, and that of partialUpdate in _write
UpdateResponse(response) ==
    LET out == bulkUpdateResult(Head(ubqPending).op, response) IN
    /\ ubqPending # <<>>
    /\ ubqPending' = Tail(ubqPending)
    /\ ubqResponses' = [ubqResponses EXCEPT ![Len(ubqCalls)] = response]
    /\ writtenRecords' = IF IsError(out) THEN writtenRecords
                         ELSE writtenRecords + response.updated
    /\ Callback("write", out)
    /\ UNCHANGED <<highWaterMark, flushTimeout, queue, flushTimeoutId, timeouts,
                   bulkPending, writeFlush, nsubmits, accepted,
                   bulkCalls, bulkResults, bulkResponses, ubqCalls>>

SubmitUpdate == \E record \in UpdateRecords(nsubmits + 1) : WriteUpdate(record)

\* what client.updateByQuery answers: an error, or an updated count with
\* or without a failure
UpdateResponses ==
    { transportErrorFixture }
        \cup { [err |-> FALSE, updated |-> updated, failures |-> failures] :
                   updated \in 0..MaxUpdated, failures \in {<<>>, <<"failure">>} }

UpdateResponds ==
    \E response \in UpdateResponses : UpdateResponse(response)

NextPartialUpdate ==
    \/ SubmitUpdate
    \/ UpdateResponds

\* the constructor of bulk-update.js: there is no flushTimeout
InitPartialUpdate == Init /\ ~flushTimeout

SpecPartialUpdate == InitPartialUpdate /\ [][NextPartialUpdate]_vars

TypeOK ==
    /\ highWaterMark \in 1..MaxHighWaterMark
    /\ flushTimeout \in BOOLEAN
    /\ flushTimeoutId \in BOOLEAN
    /\ timeouts \in 0..MaxSubmits
    /\ writtenRecords \in Nat
    /\ writing \in {"idle", "flush", "ubq"}
    /\ state \in {"Open", "Closing", "Closed"}
    /\ nsubmits \in 0..MaxSubmits
    /\ Len(bulkResults) = Len(bulkCalls)

(***************************************************************************)
(* What the backend reads in a wire batch: the action and the _id of each  *)
(* header, a header being followed by its body unless it is a delete.      *)
(***************************************************************************)
HeaderAction(entry) == CHOOSE a \in DOMAIN entry : TRUE

RECURSIVE WireOperations(_)
WireOperations(body) ==
    IF body = <<>> THEN <<>>
    ELSE LET action == HeaderAction(body[1])
             rest == IF action = "delete" THEN SubSeq(body, 2, Len(body))
                     ELSE SubSeq(body, 3, Len(body))
         IN  <<[action |-> action, id |-> body[1][action]._id]>>
                 \o WireOperations(rest)

RECURSIVE Dispatched(_)
\* the operations of the first n bulk calls, in the order they were sent
Dispatched(n) ==
    IF n = 0 THEN <<>>
    ELSE Dispatched(n - 1) \o WireOperations(bulkCalls[n].body)

\* the action and id of each record of a queue
Queued(q) == [i \in 1..Len(q) |-> [action |-> q[i].action, id |-> q[i].id]]

NoBulkFailure == \A i \in 1..Len(bulkResults) : ~IsError(bulkResults[i])

CeilDiv(m, n) == (m + n - 1) \div n

(***************************************************************************)
(* C1: with no flush timeout and every bulk call succeeding, the M records *)
(* queued so far have caused floor(M / highWaterMark) bulk calls while the *)
(* stream is open, a submit flushing exactly when the queue reaches         *)
(* highWaterMark (the queue holds M mod highWaterMark records between       *)
(* submits), and ceil(M / highWaterMark) once the stream has been closed:   *)
(* close adds one call if and only if M mod highWaterMark is not 0.         *)
(***************************************************************************)
C1_BulkCallsPerThreshold ==
    (~flushTimeout /\ NoBulkFailure) =>
        /\ state = "Open" =>
              /\ Len(bulkCalls) = Len(accepted) \div highWaterMark
              /\ Len(queue) = Len(accepted) % highWaterMark
        /\ state # "Open" =>
              /\ Len(bulkCalls) = CeilDiv(Len(accepted), highWaterMark)
              /\ (bulkCalls # <<>> /\ bulkCalls[Len(bulkCalls)].caller = "close")
                     <=> Len(accepted) % highWaterMark # 0

C1_Witness ==
    /\ ~flushTimeout
    /\ NoBulkFailure
    /\ state = "Closed"
    /\ highWaterMark = 2
    /\ Len(accepted) = 3
    /\ Len(bulkCalls) = 2
    /\ bulkCalls[1].caller = "write"
    /\ bulkCalls[2].caller = "close"
    /\ closeOutcome = Ok

(***************************************************************************)
(* C2: once the final flush has called back (finish, or the error of the   *)
(* final flush, was emitted) the queue is empty and every record that was  *)
(* pushed on the queue is in the body of a bulk call.                      *)
(***************************************************************************)
C2_CloseFlushesQueue ==
    closeOutcome # Pending =>
        /\ state = "Closed"
        /\ queue = <<>>
        /\ \A i \in 1..Len(accepted) :
              InSeq([action |-> accepted[i].action, id |-> accepted[i].id],
                    Dispatched(Len(bulkCalls)))

C2_Witness ==
    /\ closeOutcome = Ok
    /\ flushTimeout
    /\ Len(accepted) = 2
    /\ Len(bulkCalls) = 2
    /\ bulkCalls[1].caller = "timer"
    /\ Len(bulkCalls[1].body) = 2
    /\ bulkCalls[2].caller = "close"
    /\ Len(bulkCalls[2].body) = 1

(***************************************************************************)
(* C3: the operations of the bulk calls, in the order the calls were made, *)
(* followed by the records of the queue, are the records that were pushed  *)
(* on the queue, in the order they were submitted: each record is in one   *)
(* batch exactly, in submission order, and a record submitted while a call *)
(* is in flight is in the queue, the batch in flight being the one that    *)
(* was sent.                                                               *)
(***************************************************************************)
C3_EachRecordInOneBatch ==
    /\ Dispatched(Len(bulkCalls)) \o Queued(queue) = Queued(accepted)
    /\ \A call \in bulkPending :
          /\ call.n \in 1..Len(bulkCalls)
          /\ call.records = bulkCalls[call.n].body
          /\ Len(WireOperations(call.records)) = call.recordsCount

C3_Witness ==
    /\ \E call \in bulkPending : call.caller = "timer"
    /\ Len(queue) = 1
    /\ Len(accepted) = 2
    /\ \E i \in 1..Len(accepted) : accepted[i].action = "delete"

(***************************************************************************)
(* C4: at most one bulk call awaits its response.                          *)
(***************************************************************************)
C4_OneFlushInFlight == Cardinality(bulkPending) <= 1

(***************************************************************************)
(* C5: when the final flush has called back, no bulk call of the writer is *)
(* still awaiting its response.                                            *)
(***************************************************************************)
C5_CloseWaitsForFlushes == closeOutcome # Pending => bulkPending = {}

(***************************************************************************)
(* What a record is, read off the record the caller gave.                  *)
(***************************************************************************)
ActionOf(record) == IF Has(record, "action") THEN record.action ELSE "index"

MissingIndex(record) == ~Has(record, "index")

MissingBody(record) == ~Has(record, "body") /\ ActionOf(record) # "delete"

IsUpdateByQuery(record) ==
    /\ Has(record, "index")
    /\ Has(record, "body")
    /\ ActionOf(record) = "update_by_query"

IsValidUpdateByQuery(record) ==
    /\ IsUpdateByQuery(record)
    /\ Has(record.body, "script")
    /\ Has(record.body, "query")

IsQueueable(record) ==
    /\ Has(record, "index")
    /\ ActionOf(record) \in {"index", "update", "delete"}
    /\ ~MissingBody(record)

\* the step left no trace but the outcome of the submit
NothingQueuedOrSent ==
    UNCHANGED <<queue, flushTimeoutId, timeouts, writtenRecords, bulkPending, ubqPending,
                accepted, bulkCalls, bulkResults, bulkResponses, ubqCalls,
                ubqResponses, state>>

(***************************************************************************)
(* C6: a submit of a record without index, or without body when its action *)
(* is not delete, calls back at once with "index is required" or "body is  *)
(* required", a field the record misses, and leaves the queue, the timer,  *)
(* the written-record counter and the calls to the backend as they were; a *)
(* delete record without body is pushed on the queue.                      *)
(***************************************************************************)
C6_Step(record) ==
    /\ (MissingIndex(record) \/ MissingBody(record)) =>
          /\ writing' = "idle"
          /\ writeResult' \in
                { Fail("index is required") : x \in {1} \cap
                      (IF MissingIndex(record) THEN {1} ELSE {}) }
                \cup
                { Fail("body is required") : x \in {1} \cap
                      (IF MissingBody(record) THEN {1} ELSE {}) }
          /\ NothingQueuedOrSent
    /\ (~MissingIndex(record) /\ ActionOf(record) = "delete") =>
          accepted' = Append(accepted, record)

C6_InvalidRecordRejected ==
    [][\A record \in Records(nsubmits + 1) : Write(record) => C6_Step(record)]_vars

C6_Witness ==
    /\ writeResult = Fail("body is required")
    /\ writing = "idle"
    /\ Len(queue) = 1
    /\ queue[1].action = "delete"
    /\ ~Has(queue[1], "body")
    /\ flushTimeoutId
    /\ writtenRecords > 0

(***************************************************************************)
(* C7: a submit of a record without type calls back with "type is          *)
(* required", and the record is neither queued nor sent.                   *)
(***************************************************************************)
C7_TypeRequired ==
    [][\A record \in Records(nsubmits + 1) :
          (Write(record) /\ ~Has(record, "type")) =>
              /\ writeResult' = Fail("type is required")
              /\ NothingQueuedOrSent]_vars

(***************************************************************************)
(* C8: a submit of an update_by_query record whose body has no script      *)
(* calls back with "body.script is required", and of one whose body has a  *)
(* script and no query with "body.query is required"; updateByQuery is not *)
(* called, nothing is queued.                                              *)
(***************************************************************************)
C8_Step(record) ==
    (IsUpdateByQuery(record) /\ ~IsValidUpdateByQuery(record)) =>
        /\ writing' = "idle"
        /\ writeResult' = IF ~Has(record.body, "script")
                          THEN Fail("body.script is required")
                          ELSE Fail("body.query is required")
        /\ NothingQueuedOrSent

C8_UpdateByQueryValidated ==
    [][\A record \in Records(nsubmits + 1) : Write(record) => C8_Step(record)]_vars

C8_Witness ==
    /\ writeResult = Fail("body.script is required")
    /\ writing = "idle"
    /\ nsubmits = 2
    /\ Len(ubqCalls) = 1
    /\ ubqPending = <<>>

(***************************************************************************)
(* C9: a submit of a valid update_by_query record calls updateByQuery with *)
(* the record without its action, and leaves the queue, the timer and the  *)
(* bulk calls as they were; the submit has not called back while the call  *)
(* awaits its response; no update_by_query record is ever queued or in the *)
(* body of a bulk call.                                                    *)
(***************************************************************************)
C9_Step(record) ==
    IsValidUpdateByQuery(record) =>
        /\ ubqCalls' = Append(ubqCalls, Unset(record, "action"))
        /\ Len(ubqPending') = Len(ubqPending) + 1
        /\ writing' = "ubq"
        /\ writeResult' = Pending
        /\ UNCHANGED <<queue, flushTimeoutId, timeouts, writtenRecords, bulkPending,
                       accepted, bulkCalls, bulkResults>>

C9_Bypass ==
    /\ Len(ubqPending) = IF writing = "ubq" THEN 1 ELSE 0
    /\ writing = "ubq" => writeResult = Pending
    /\ \A i \in 1..Len(queue) : queue[i].action # "update_by_query"
    /\ \A i \in 1..Len(bulkCalls) :
          \A j \in 1..Len(bulkCalls[i].body) :
              ~Has(bulkCalls[i].body[j], "update_by_query")
    /\ \A i \in 1..Len(ubqCalls) : ~Has(ubqCalls[i], "action")

C9_UpdateByQueryBypassesQueue ==
    /\ []C9_Bypass
    /\ [][\A record \in Records(nsubmits + 1) : Write(record) => C9_Step(record)]_vars

C9_Witness ==
    /\ writing = "ubq"
    /\ Len(ubqPending) = 1
    /\ ubqCalls = <<Unset(recordUpdateByQueryFixture, "action")>>
    /\ Len(queue) = 1
    /\ flushTimeoutId

(***************************************************************************)
(* C10: a submit that makes the queue reach highWaterMark starts a bulk    *)
(* call and has not called back while that call awaits its response; when  *)
(* it has called back, it has done so with the outcome of that call.  A    *)
(* submit of a queueable record that leaves the queue below highWaterMark  *)
(* calls back with success in the same step, and starts no bulk call.      *)
(***************************************************************************)
C10_Step(record) ==
    IsQueueable(record) =>
        IF Len(queue) + 1 >= highWaterMark
        THEN /\ writing' = "flush"
             /\ writeResult' = Pending
             /\ writeFlush' = Len(bulkCalls) + 1
             /\ Len(bulkCalls') = Len(bulkCalls) + 1
             /\ bulkCalls'[writeFlush'].caller = "write"
        ELSE /\ writing' = "idle"
             /\ writeResult' = Ok
             /\ UNCHANGED <<bulkCalls, bulkPending>>

C10_FlushOutcome ==
    /\ writing = "flush" =>
          /\ writeFlush \in 1..Len(bulkCalls)
          /\ bulkResults[writeFlush] = Pending
          /\ writeResult = Pending
          /\ \E call \in bulkPending : call.n = writeFlush
    /\ (writing = "idle" /\ writeFlush # 0) =>
          /\ bulkResults[writeFlush] # Pending
          /\ writeResult = bulkResults[writeFlush]

C10_SubmitWaitsForItsFlush ==
    /\ []C10_FlushOutcome
    /\ [][\A record \in Records(nsubmits + 1) : Write(record) => C10_Step(record)]_vars

C10_Witness ==
    /\ writing = "idle"
    /\ writeFlush = 2
    /\ bulkResults[1] = Ok
    /\ IsError(writeResult)
    /\ writeResult.message = "InternalServerError,Forbidden"
    /\ bulkResults[2] = writeResult

\* the last bulk call
LastCall == bulkCalls[Len(bulkCalls)]

\* the step made bulk call number Len(bulkCalls) + 1, and no other
OneMoreCall == Len(bulkCalls') = Len(bulkCalls) + 1

(***************************************************************************)
(* C11: with a flush timeout, a submit that leaves the queue below         *)
(* highWaterMark leaves the timer pending; the timer is pending only over  *)
(* a queue that is not empty; when it fires, one bulk call is made, whose  *)
(* body holds the records the queue held at that moment, in order, the     *)
(* queue is left empty and the timer is no longer pending, so that it      *)
(* fires once.                                                             *)
(***************************************************************************)
C11_TimerPending ==
    flushTimeoutId => (flushTimeout /\ queue # <<>> /\ Len(queue) < highWaterMark)

C11_TimerStep ==
    TimerFires =>
        /\ OneMoreCall
        /\ bulkCalls'[Len(bulkCalls')].caller = "timer"
        /\ WireOperations(bulkCalls'[Len(bulkCalls')].body) = Queued(queue)
        /\ SubSeq(bulkCalls', 1, Len(bulkCalls)) = bulkCalls
        /\ queue' = <<>>
        /\ ~flushTimeoutId'

C11_SubmitStep(record) ==
    (flushTimeout /\ IsQueueable(record) /\ Len(queue) + 1 < highWaterMark) =>
        /\ flushTimeoutId'
        /\ Len(queue') = Len(queue) + 1

C11_TimerFlushesQueue ==
    /\ []C11_TimerPending
    /\ [][C11_TimerStep]_vars
    /\ [][\A record \in Records(nsubmits + 1) :
              Write(record) => C11_SubmitStep(record)]_vars

C11_Witness ==
    /\ flushTimeout
    /\ highWaterMark = 2
    /\ Len(accepted) = 1
    /\ Len(bulkCalls) = 1
    /\ LastCall.caller = "timer"
    /\ WireOperations(LastCall.body) = Queued(accepted)
    /\ queue = <<>>
    /\ ~flushTimeoutId
    /\ bulkResults[1] = Ok

(***************************************************************************)
(* C12: a close while the timer is pending makes one bulk call, that of    *)
(* the final flush, and leaves the timer cancelled; once the stream is no  *)
(* longer open the timer is never pending, and once the final flush has    *)
(* called back no bulk call is made any more.                              *)
(***************************************************************************)
C12_NoTimerAfterClose == state # "Open" => ~flushTimeoutId

C12_CloseStep ==
    (Close /\ flushTimeoutId) =>
        /\ OneMoreCall
        /\ bulkCalls'[Len(bulkCalls')].caller = "close"
        /\ ~flushTimeoutId'

C12_AfterClose ==
    closeOutcome # Pending => (bulkCalls' = bulkCalls /\ ~flushTimeoutId')

C12_CloseCancelsTimer ==
    /\ []C12_NoTimerAfterClose
    /\ [][C12_CloseStep]_vars
    /\ [][C12_AfterClose]_vars

C12_Witness ==
    /\ flushTimeout
    /\ highWaterMark = 2
    /\ closeOutcome = Ok
    /\ Len(accepted) = 1
    /\ Len(bulkCalls) = 1
    /\ LastCall.caller = "close"
    /\ ~flushTimeoutId

(***************************************************************************)
(* C13: no bulk call has an empty body; a close over an empty queue calls  *)
(* back with success in the same step and makes no call to the backend.    *)
(***************************************************************************)
C13_NoEmptyBatch == \A i \in 1..Len(bulkCalls) : bulkCalls[i].body # <<>>

C13_CloseStep ==
    (Close /\ queue = <<>>) =>
        /\ closeOutcome' = Ok
        /\ state' = "Closed"
        /\ UNCHANGED <<bulkCalls, bulkPending, ubqCalls, ubqPending,
                       writtenRecords>>

C13_EmptyFlushCallsNothing ==
    /\ []C13_NoEmptyBatch
    /\ [][C13_CloseStep]_vars

C13_Witness ==
    /\ state = "Closed"
    /\ closeOutcome = Ok
    /\ highWaterMark = 2
    /\ Len(accepted) = 2
    /\ Len(bulkCalls) = 1
    /\ LastCall.caller = "write"
    /\ bulkPending = {}

(***************************************************************************)
(* C14: the written-record counter is the number of records (headers, not  *)
(* wire entries) of the bulk calls whose flush called back with success,   *)
(* plus the updated counts of the updateByQuery calls that answered with   *)
(* no failure; it never decreases.                                         *)
(***************************************************************************)
RECURSIVE FlushedRecords(_)
FlushedRecords(n) ==
    IF n = 0 THEN 0
    ELSE FlushedRecords(n - 1)
         + (IF bulkResults[n] = Ok
            THEN Len(WireOperations(bulkCalls[n].body)) ELSE 0)

UpdateSucceeded(response) ==
    /\ Has(response, "failures")
    /\ ~response.err
    /\ Len(response.failures) = 0

RECURSIVE UpdatedRecords(_)
UpdatedRecords(n) ==
    IF n = 0 THEN 0
    ELSE UpdatedRecords(n - 1)
         + (IF UpdateSucceeded(ubqResponses[n]) THEN ubqResponses[n].updated
            ELSE 0)

C14_Counter ==
    writtenRecords = FlushedRecords(Len(bulkCalls)) + UpdatedRecords(Len(ubqCalls))

C14_WrittenRecords ==
    /\ []C14_Counter
    /\ [][writtenRecords' >= writtenRecords]_vars

C14_Witness ==
    /\ writtenRecords = 3
    /\ Len(bulkCalls) = 2
    /\ IsError(bulkResults[1])
    /\ bulkResults[2] = Ok
    /\ Len(bulkCalls[2].body) = 2
    /\ ubqResponses = <<successUpdateByQueryResponseFixture>>

(***************************************************************************)
(* C15: when client.bulk answers with an error, the flush calls back with  *)
(* that error, which carries the body that was sent; the queue and the     *)
(* calls made are left as they were.  The records of a failed call are in  *)
(* no other call and not in the queue: what the queue holds was submitted  *)
(* after them.                                                             *)
(***************************************************************************)
C15_ResponseStep(call, response) ==
    response.err =>
        /\ IsError(bulkResults'[call.n])
        /\ bulkResults'[call.n].message = response.message
        /\ Has(bulkResults'[call.n], "records")
        /\ bulkResults'[call.n].records = bulkCalls[call.n].body
        /\ UNCHANGED <<queue, bulkCalls, accepted, writtenRecords, flushTimeoutId, timeouts>>
        /\ bulkPending' = bulkPending \ {call}

TransportFailed(n) == Has(bulkResponses[n], "err") /\ bulkResponses[n].err

C15_NotSentAgain ==
    \A n \in 1..Len(bulkCalls) :
        TransportFailed(n) =>
            \A i \in 1..Len(WireOperations(bulkCalls[n].body)) :
                LET sent == WireOperations(bulkCalls[n].body)[i] IN
                /\ \A m \in 1..Len(bulkCalls) :
                      m # n => ~InSeq(sent, WireOperations(bulkCalls[m].body))
                /\ \A j \in 1..Len(queue) : queue[j].id > sent.id

C15_DispatchErrorCarriesBatch ==
    /\ []C15_NotSentAgain
    /\ [][\A call \in bulkPending : \A response \in BulkResponses :
              BulkResponse(call, response) => C15_ResponseStep(call, response)]_vars

C15_Witness ==
    /\ Len(bulkCalls) = 1
    /\ TransportFailed(1)
    /\ bulkResults[1] = WithRecords(Fail("Fail"), bulkCalls[1].body)
    /\ errorEvents = 1
    /\ Len(queue) = 1
    /\ Len(accepted) = 2

(***************************************************************************)
(* C19: the error events emitted by the timer's callback are as many as    *)
(* the failed bulk calls of timer-triggered flushes; the failure of such a *)
(* call changes the outcome of no submit and not that of close.  A failed  *)
(* bulk call is reported once: to the error event for the timer, as the    *)
(* outcome of the waiting submit for a threshold flush, as the outcome of  *)
(* close for the final flush.                                              *)
(***************************************************************************)
TimerFailures ==
    Cardinality({n \in 1..Len(bulkCalls) :
                    bulkCalls[n].caller = "timer" /\ IsError(bulkResults[n])})

C19_ErrorEvents == errorEvents = TimerFailures

C19_ResponseStep(call) ==
    IsError(bulkResults'[call.n]) =>
        /\ call.caller = "timer" =>
              /\ errorEvents' = errorEvents + 1
              /\ UNCHANGED <<writing, writeResult, closeOutcome, state>>
        /\ call.caller = "write" =>
              /\ writing = "flush" /\ writing' = "idle"
              /\ writeResult' = bulkResults'[call.n]
              /\ UNCHANGED <<errorEvents, closeOutcome, state>>
        /\ call.caller = "close" =>
              /\ closeOutcome = Pending
              /\ closeOutcome' = bulkResults'[call.n]
              /\ UNCHANGED <<errorEvents, writing, writeResult>>

C19_FlushErrorReportedOnce ==
    /\ []C19_ErrorEvents
    /\ [][\A call \in bulkPending : \A response \in BulkResponses :
              BulkResponse(call, response) => C19_ResponseStep(call)]_vars

C19_Witness ==
    /\ errorEvents = 1
    /\ Len(bulkCalls) = 2
    /\ bulkCalls[1].caller = "timer"
    /\ IsError(bulkResults[1])
    /\ bulkCalls[2].caller = "close"
    /\ closeOutcome = Ok
    /\ writeResult = Ok

(***************************************************************************)
(* The error descriptions of the items of a response, read off the items:  *)
(* an item has one when its error is a string or has a type.               *)
(***************************************************************************)
ItemResult(item) == item[CHOOSE k \in DOMAIN item : TRUE]

HasDescription(item) ==
    /\ Has(ItemResult(item), "error")
    /\ \/ Has(ItemResult(item).error, "string")
       \/ Has(ItemResult(item).error, "type")

Description(item) ==
    LET error == ItemResult(item).error IN
    IF Has(error, "string") THEN error.string
    ELSE error.type \o "[" \o error.reason \o "]"

\* the descriptions of the items that have one, in the order of the items
Descriptions(items) ==
    LET described == SelectSeq(items, HasDescription)
    IN  [i \in 1..Len(described) |-> Description(described[i])]

\* the descriptions from the i-th on that no earlier one equals
RECURSIVE FirstOccurrences(_, _)
FirstOccurrences(ds, i) ==
    IF i > Len(ds) THEN <<>>
    ELSE (IF \E j \in 1..(i - 1) : ds[j] = ds[i] THEN <<>> ELSE <<ds[i]>>)
             \o FirstOccurrences(ds, i + 1)

RECURSIVE CommaJoined(_)
CommaJoined(ds) ==
    IF ds = <<>> THEN ""
    ELSE IF Len(ds) = 1 THEN ds[1]
    ELSE ds[1] \o "," \o CommaJoined(Tail(ds))

\* client.bulk answered call n with a response, not with an error
Answered(n) == Has(bulkResponses[n], "items")

(***************************************************************************)
(* C16: a bulk call answered with a response of which an item carries an   *)
(* error description has failed its flush, whatever the errors flag of the *)
(* response.                                                               *)
(***************************************************************************)
C16_ItemErrorFailsFlush ==
    \A n \in 1..Len(bulkCalls) :
        (Answered(n) /\ Descriptions(bulkResponses[n].items) # <<>>) =>
            IsError(bulkResults[n])

(***************************************************************************)
(* C16, amended: a bulk call answered with a response whose errors flag is *)
(* true and of which an item carries an error description has failed its   *)
(* flush, with an error of which the message is the descriptions, each     *)
(* once, and which carries the body sent.                                  *)
(***************************************************************************)
C16_FlaggedItemErrorFailsFlush ==
    \A n \in 1..Len(bulkCalls) :
        (Answered(n) /\ bulkResponses[n].errors = TRUE
                     /\ Descriptions(bulkResponses[n].items) # <<>>) =>
            /\ IsError(bulkResults[n])
            /\ bulkResults[n].message =
                   CommaJoined(FirstOccurrences(Descriptions(bulkResponses[n].items), 1))
            /\ bulkResults[n].records = bulkCalls[n].body

C16_Witness ==
    /\ Len(bulkCalls) = 1
    /\ bulkResponses[1] = errorObjectResponseFixture
    /\ IsError(bulkResults[1])
    /\ bulkResults[1].records = bulkCalls[1].body

(***************************************************************************)
(* C17: a bulk call answered with a response of which no item carries an   *)
(* error description has succeeded, whatever the errors flag, and its      *)
(* records are counted as written.                                         *)
(***************************************************************************)
C17_NoItemErrorSucceeds ==
    \A n \in 1..Len(bulkCalls) :
        (Answered(n) /\ Descriptions(bulkResponses[n].items) = <<>>) =>
            /\ bulkResults[n] = Ok
            /\ writtenRecords >= bulkCalls[n].recordsCount

(***************************************************************************)
(* C17, amended: a bulk call answered with a response whose errors flag is *)
(* not true and of which no item carries an error description has          *)
(* succeeded, and its records are counted as written.                      *)
(***************************************************************************)
C17_UnflaggedNoItemErrorSucceeds ==
    \A n \in 1..Len(bulkCalls) :
        (Answered(n) /\ bulkResponses[n].errors # TRUE
                     /\ Descriptions(bulkResponses[n].items) = <<>>) =>
            /\ bulkResults[n] = Ok
            /\ writtenRecords >= bulkCalls[n].recordsCount

C17_Witness ==
    /\ Len(bulkCalls) = 1
    /\ bulkResponses[1] = successResponseFixture
    /\ bulkResults[1] = Ok
    /\ writtenRecords = 1

(***************************************************************************)
(* C18: the message of the error of a flush that failed on a response is   *)
(* the descriptions of the items, each once, at its first occurrence,      *)
(* joined by commas: type[reason] for an error object, the string itself   *)
(* for a string.                                                           *)
(***************************************************************************)
C18_FailureMessage ==
    \A n \in 1..Len(bulkCalls) :
        (Answered(n) /\ IsError(bulkResults[n])) =>
            bulkResults[n].message =
                CommaJoined(FirstOccurrences(Descriptions(bulkResponses[n].items), 1))

C18_Witness ==
    /\ Len(bulkCalls) = 1
    /\ Answered(1)
    /\ bulkResponses[1].items = << errorResponseFixture.items[1],
                                   errorObjectResponseFixture.items[2],
                                   errorResponseFixture.items[1] >>
    /\ IsError(bulkResults[1])
    /\ bulkResults[1].message = "InternalServerError,Forbidden[Forbidden reason]"

(***************************************************************************)
(* The records of the n-th bulk call: the queue is sent whole and in       *)
(* order, so they are the next recordsCount records accepted.              *)
(***************************************************************************)
RECURSIVE SentBefore(_)
SentBefore(n) ==
    IF n = 1 THEN 0 ELSE SentBefore(n - 1) + bulkCalls[n - 1].recordsCount

BatchRecords(n) ==
    SubSeq(accepted, SentBefore(n) + 1, SentBefore(n) + bulkCalls[n].recordsCount)

Deletes(records, n) == { j \in 1..n : records[j].action = "delete" }

\* the number of wire entries of the records before the i-th
EntriesBefore(records, i) ==
    2 * (i - 1) - Cardinality(Deletes(records, i - 1))

WireLayout(records, body) ==
    /\ Len(body) = 2 * Len(records) - Cardinality(Deletes(records, Len(records)))
    /\ \A i \in 1..Len(records) :
           LET record == records[i]
               at == EntriesBefore(records, i)
           IN  /\ DOMAIN body[at + 1] = {record.action}
               /\ body[at + 1][record.action]._index = record.index
               /\ body[at + 1][record.action]._id = record.id
               /\ record.action # "delete" => body[at + 2] = record.body

(***************************************************************************)
(* C20: the body of a bulk call, and the wire batch of the queue, holds    *)
(* for each record in order one header keyed by the action of the record,  *)
(* index when the record has none, then the body of the record unless the  *)
(* action is delete: 2k + d entries for d deletes and k other records.     *)
(***************************************************************************)
C20_Layout ==
    /\ \A n \in 1..Len(bulkCalls) :
           WireLayout(BatchRecords(n), bulkCalls[n].body)
    /\ WireLayout(queue, transformRecords(queue))

\* a record is queued with the action it was given, index when it has none
C20_Step ==
    \A record \in WireRecords(nsubmits + 1) :
        (Write(record) /\ accepted' # accepted) =>
            /\ accepted'[Len(accepted')].action = ActionOf(record)
            /\ accepted'[Len(accepted')].id = record.id

C20_WireBatchLayout == []C20_Layout /\ [][C20_Step]_vars

C20_Witness ==
    /\ Len(bulkCalls) >= 1
    /\ bulkCalls[1].recordsCount = 2
    /\ accepted[1].id = 1 /\ accepted[1].action = "index"
    /\ accepted[2].action = "delete"
    /\ Len(bulkCalls[1].body) = 3
    /\ DOMAIN bulkCalls[1].body[1] = {"index"}
    /\ bulkCalls[1].body[2] = [foo |-> "bar"]
    /\ DOMAIN bulkCalls[1].body[3] = {"delete"}

(***************************************************************************)
(* C21: the header of each record sent in a bulk call has _parent, with    *)
(* the parent of the record, exactly when the record has a parent, has     *)
(* _type, with the type of the record, exactly when the record has a type, *)
(* and always has _index, with the index of the record.                    *)
(***************************************************************************)
HeaderOf(n, i) ==
    LET records == BatchRecords(n)
    IN  bulkCalls[n].body[EntriesBefore(records, i) + 1][records[i].action]

C21_HeaderFields ==
    \A n \in 1..Len(bulkCalls) : \A i \in 1..bulkCalls[n].recordsCount :
        LET record == BatchRecords(n)[i]
            header == HeaderOf(n, i)
        IN  /\ Has(header, "_parent") <=> Has(record, "parent")
            /\ Has(header, "_parent") => header._parent = record.parent
            /\ Has(header, "_type") <=> Has(record, "type")
            /\ Has(header, "_type") => header._type = record.type
            /\ Has(header, "_index") /\ header._index = record.index

C21_Witness ==
    /\ Len(bulkCalls) >= 1
    /\ bulkCalls[1].recordsCount = 2
    /\ Has(accepted[1], "parent") /\ ~Has(accepted[2], "type")
    /\ HeaderOf(1, 1) = [_index |-> "indexName", _type |-> "recordType",
                         _id |-> 1, _parent |-> "parentRecordType"]
    /\ HeaderOf(1, 2) = [_index |-> "indexName", _id |-> 2]

(***************************************************************************)
(* C22: when client.updateByQuery answers with an error, the submit fails  *)
(* with an error that carries the operation; when it answers with          *)
(* failures, the submit fails with an error that carries the operation and *)
(* writtenRecords stays; when it answers with no failures, the submit      *)
(* succeeds and writtenRecords grows by the updated count of the response. *)
(***************************************************************************)
\* the error carries the record of which the last updateByQuery call was made
CarriesOperation(error) ==
    /\ Has(error, "operation")
    /\ Has(error.operation, "action")
    /\ error.operation.action = "update_by_query"
    /\ Unset(error.operation, "action") = ubqCalls[Len(ubqCalls)]

C22_Step ==
    \A response \in AnyUpdateByQueryResponses :
        UpdateByQueryResponse(response) =>
            IF response.err
            THEN /\ IsError(writeResult')
                 /\ writeResult'.message = response.message
                 /\ CarriesOperation(writeResult')
            ELSE IF response.failures # <<>>
            THEN /\ IsError(writeResult')
                 /\ CarriesOperation(writeResult')
                 /\ writtenRecords' = writtenRecords
            ELSE /\ writeResult' = Ok
                 /\ writtenRecords' = writtenRecords + response.updated

C22_UpdateByQueryOutcome == [][C22_Step]_vars

C22_Witness ==
    /\ Len(ubqCalls) = 3
    /\ ubqResponses[1] = [err |-> FALSE, updated |-> 2, failures |-> <<>>]
    /\ ubqResponses[2] = transportErrorFixture
    /\ ubqResponses[3] = [err |-> FALSE, updated |-> 1, failures |-> <<"failure">>]
    /\ IsError(writeResult)
    /\ writeResult.operation = Set(recordUpdateByQueryFixture, "id", 3)
    /\ writtenRecords = 2

(***************************************************************************)
(* C23: once the stream has ended the queue is empty and no timer is       *)
(* pending; the bulk call of the final flush, when there is one, is        *)
(* awaited, and once it is answered the writer is Closed and the outcome   *)
(* of close is the outcome of that call, its error when it failed.         *)
(***************************************************************************)
CloseCalls == { n \in 1..Len(bulkCalls) : bulkCalls[n].caller = "close" }

C23_CloseOutcome ==
    /\ state # "Open" => (queue = <<>> /\ ~flushTimeoutId)
    /\ state = "Closing" => \E n \in CloseCalls : bulkResults[n] = Pending
    /\ state = "Closed" =>
           /\ closeOutcome # Pending
           /\ CloseCalls = {} => closeOutcome = Ok
    /\ \A n \in CloseCalls :
           /\ state # "Open"
           /\ bulkResults[n] # Pending =>
                  (state = "Closed" /\ closeOutcome = bulkResults[n])

C23_Witness ==
    /\ state = "Closed"
    /\ IsError(closeOutcome)
    /\ closeOutcome.message = "Fail"
    /\ \E n \in CloseCalls : bulkResponses[n] = transportErrorFixture

(***************************************************************************)
(* C24: at most one timer is pending, the one this.flushTimeoutId names,   *)
(* and only while the queue holds a record; a submit below highWaterMark   *)
(* leaves one timer pending whatever was pending before, and a step that   *)
(* flushes leaves none.                                                    *)
(***************************************************************************)
C24_OneTimer ==
    /\ timeouts <= 1
    /\ flushTimeoutId <=> timeouts = 1
    /\ timeouts > 0 => queue # <<>>

Flushes ==
    \/ TimerFires
    \/ Close
    \/ (SubmitRecord /\ Len(accepted') > Len(accepted)
                     /\ ReachedHighWaterMark(Append(queue, accepted'[Len(accepted')])))

C24_Step ==
    /\ (SubmitRecord /\ flushTimeout /\ queue' # <<>>) => timeouts' = 1
    /\ Flushes => (timeouts' = 0 /\ queue' = <<>>)

C24_AtMostOneTimer == []C24_OneTimer /\ [][C24_Step]_vars

\* the second submit below highWaterMark has set the timer again
C24_Witness ==
    /\ highWaterMark = 3
    /\ Len(queue) = 2
    /\ bulkCalls = <<>>
    /\ timeouts = 1
    /\ flushTimeoutId

FlushedQueue ==
    IF Len(accepted') > Len(accepted)
    THEN Append(queue, accepted'[Len(accepted')])
    ELSE queue

FlushThrows ==
    /\ TransformThrows(FlushedQueue)
    /\ \/ TimerFires
       \/ Close
       \/ (SubmitThrowing /\ Len(accepted') > Len(accepted)
                          /\ ReachedHighWaterMark(FlushedQueue))

FailsWithTransformError ==
    /\ bulkCalls' = bulkCalls
    /\ bulkPending' = bulkPending
    /\ TimerFires => errorEvents' = errorEvents + 1
    /\ Close => (state' = "Closed" /\ closeOutcome' = Fail("type getter"))
    /\ SubmitThrowing => (writing' = "idle" /\ writeResult' = Fail("type getter"))

(***************************************************************************)
(* C26: a flush in which transformRecords throws fails with the error      *)
(* thrown and makes no bulk call, and the records it was to send are in    *)
(* the queue no more.                                                      *)
(***************************************************************************)
C26_Step ==
    FlushThrows => (FailsWithTransformError /\ queue' = <<>>)

C26_TransformFailureLosesRecords == [][C26_Step]_vars

(***************************************************************************)
(* C26, amended: a flush in which transformRecords throws fails with the   *)
(* error thrown and makes no bulk call, and it leaves the queue as it      *)
(* found it: the records it was to send are still the queue.               *)
(***************************************************************************)
C26_KeptStep ==
    FlushThrows => (FailsWithTransformError /\ queue' = FlushedQueue)

C26_TransformFailureKeepsRecords == [][C26_KeptStep]_vars

C26_Witness ==
    /\ highWaterMark = 2
    /\ Len(queue) = 2
    /\ Has(queue[2], "getter")
    /\ writing = "idle"
    /\ writeResult = Fail("type getter")
    /\ bulkCalls = <<>>

(***************************************************************************)
(* C28: when flushTimeout is set and a pending timer fires in the end,     *)
(* every record pushed on the queue is sent in a bulk call in the end,     *)
(* with or without a submit that reaches highWaterMark and with or without *)
(* the end of the stream; when flushTimeout is not set, bulk calls are     *)
(* made only by a submit that reaches highWaterMark and by the end of the  *)
(* stream.                                                                 *)
(***************************************************************************)
\* the number of records sent in bulk calls so far
SentRecords == SentBefore(Len(bulkCalls) + 1)

C28_Sent ==
    \A k \in 1..MaxSubmits :
        (flushTimeout /\ Len(accepted) >= k) ~> (SentRecords >= k)

C28_NoTimerNoTimerFlush ==
    ~flushTimeout =>
        \A n \in 1..Len(bulkCalls) : bulkCalls[n].caller \in {"write", "close"}

C28_TimerDispatchesQueue == C28_Sent /\ []C28_NoTimerNoTimerFlush

\* the timer sent a queue below highWaterMark of a stream that has not ended
C28_Witness ==
    /\ flushTimeout
    /\ state = "Open"
    /\ highWaterMark = 3
    /\ Len(bulkCalls) = 1
    /\ bulkCalls[1].caller = "timer"
    /\ bulkCalls[1].recordsCount = 2
    /\ SentRecords = Len(accepted)

(***************************************************************************)
(* C29: the writer of bulk-update.js fails the write of a record without   *)
(* index, type, body, body.script or body.query with the message of the    *)
(* first of these that is missing, and calls nothing; of the other records *)
(* client.updateByQuery is given the index, the type, and the script and   *)
(* the query of the body, and nothing else; writtenRecords grows by the    *)
(* updated count of a response without error and without failures, and    *)
(* stays on any other response.                                            *)
(***************************************************************************)
RequiredFields == <<"index", "type", "body", "body.script", "body.query">>

IsMissing(record, field) ==
    CASE field = "body.script" -> ~Has(record, "body") \/ ~Has(record.body, "script")
      [] field = "body.query" -> ~Has(record, "body") \/ ~Has(record.body, "query")
      [] OTHER -> ~Has(record, field)

MissingFields(record) ==
    { i \in 1..Len(RequiredFields) : IsMissing(record, RequiredFields[i]) }

FirstMissing(record) ==
    RequiredFields[CHOOSE i \in MissingFields(record) :
                       \A j \in MissingFields(record) : i <= j]

C29_WriteStep ==
    \A record \in UpdateRecords(nsubmits + 1) :
        WriteUpdate(record) =>
            /\ writtenRecords' = writtenRecords
            /\ IF MissingFields(record) # {}
               THEN /\ writeResult' = Fail(FirstMissing(record) \o " is required")
                    /\ writing' = "idle"
                    /\ ubqCalls' = ubqCalls
               ELSE /\ Len(ubqCalls') = Len(ubqCalls) + 1
                    /\ LET update == ubqCalls'[Len(ubqCalls')]
                       IN  /\ DOMAIN update = {"index", "type", "body"}
                           /\ DOMAIN update.body = {"script", "query"}
                           /\ update.index = record.index
                           /\ update.type = record.type
                           /\ update.body.script = record.body.script
                           /\ update.body.query = record.body.query

C29_ResponseStep ==
    \A response \in UpdateResponses :
        UpdateResponse(response) =>
            IF ~response.err /\ response.failures = <<>>
            THEN writeResult' = Ok
                 /\ writtenRecords' = writtenRecords + response.updated
            ELSE IsError(writeResult') /\ writtenRecords' = writtenRecords

C29_PartialUpdateWritable == [][C29_WriteStep /\ C29_ResponseStep]_vars

C29_Witness ==
    /\ nsubmits = 3
    /\ Len(ubqCalls) = 2
    /\ ubqCalls[1] = [index |-> "indexName", type |-> "recordType",
                      body |-> [script |-> "ctx._source.counter++",
                                query |-> "term"]]
    /\ ubqResponses[1] = [err |-> FALSE, updated |-> 2, failures |-> <<>>]
    /\ ubqResponses[2] = [err |-> FALSE, updated |-> 1, failures |-> <<"failure">>]
    /\ writtenRecords = 2
    /\ writeResult = Fail("body.script is required")

====
